---- MODULE Spec2Model ----
(***************************************************************************)
(* Job execution and lifecycle engine of fastapi/remote_executor.py.       *)
(*                                                                         *)
(* The service runs on one asyncio event loop: a request handler or a task *)
(* runs without interruption until it awaits.  Every action below is one   *)
(* such uninterrupted stretch of code, or one event of the environment     *)
(* (the child process, the event loop's process watcher, the clock).       *)
(*                                                                         *)
(* The child of a job is the shell that create_subprocess_shell starts.    *)
(* The output pipe belongs to the shell and to every process it starts: it *)
(* reaches end of stream when the last of them has closed it, before or    *)
(* after the shell itself has ended.  The loop reads the pipe and feeds    *)
(* the job's StreamReader; read_stream sees what the reader was fed.       *)
(***************************************************************************)
EXTENDS Integers, Sequences, FiniteSets, TLC

\* ---------------------------------------------------------------------------
\* Bounds of the model
\* ---------------------------------------------------------------------------
MaxJobs == 2          \* submissions accepted over a run
MaxLines == 2         \* chunks a child writes to its output over its life
MaxTicks == 2         \* clock advances over a run

\* ---------------------------------------------------------------------------
\* Program constants
\* ---------------------------------------------------------------------------
JOB_TTL_SECONDS == 3600
DefaultTimeout == 1200
TimeoutReturncode == -1

JobIds == 1..MaxJobs
None == {}                       \* Python's None; a present value x is {x}
TerminalStatuses == {"finished", "error", "cancelled", "timeout"}

\* Inputs of a run.
\* The clock advances by the retention window, so that a job's age is below,
\* at or above the window, and a job's timeout has elapsed after one advance.
Timeouts == {DefaultTimeout}
ExitCodes == {0, 1}
TickSteps == {JOB_TTL_SECONDS}
\* What the child writes: byte lines (97 = 'a', 98 = 'b', 255 = a byte that is
\* not UTF-8, 10 = newline), and Overlong, which stands for a chunk with no
\* newline that is longer than the StreamReader limit.  The k-th chunk of a
\* child is its k-th line or an overlong chunk, so that the lines of a job
\* differ from their neighbours.
Overlong == <<0>>
LineAt(k) == IF k % 2 = 1 THEN <<97, 10>> ELSE <<255, 98, 10>>
Chunks(k) == {LineAt(k), Overlong}

\* Stream subscribers
SubIds == {1, 2}
IdleSub == [pc |-> "idle"]

VARIABLES
    jobs,           \* keys of the `jobs` dict, in insertion order
    jobdict,        \* job id -> the dict object stored under that key
    output_lines,   \* job id -> the list object shared by the dict and run()
    req,            \* job id -> the CommandRequest captured by run()
    pc,             \* job id -> where the job's run() task stands
    child,          \* job id -> "none" | "alive" | "dead" | "reaped"
    exitcode,       \* job id -> exit status the watcher reports for the dead child
    pipe,           \* job id -> chunks fed to the StreamReader, not yet read
    eof,            \* job id -> the StreamReader was fed end of stream
    tclosed,        \* job id -> the subprocess transport has finished
    kills,          \* job id -> number of proc.kill() calls made
    read_start,     \* job id -> clock value when wait_for(read_stream) began
    now,            \* time.time()
    ticks,          \* clock advances so far
    next_id,        \* next fresh job id (uuid4)
    resp,           \* response of the handler that ran in the last step
    subs            \* subscriber -> its event_generator and what it has sent

vars == <<jobs, jobdict, output_lines, req, pc, child, exitcode, pipe, eof,
          tclosed, kills, read_start, now, ticks, next_id, resp, subs>>

\* ---------------------------------------------------------------------------
\* Python dict and str helpers
\* ---------------------------------------------------------------------------
EmptyDict == [k \in {} |-> 0]

\* d.update(u)
DictUpdate(d, u) ==
    [k \in (DOMAIN d) \cup (DOMAIN u) |-> IF k \in DOMAIN u THEN u[k] ELSE d[k]]

\* d.get(k, default)
DictGet(d, k, default) == IF k \in DOMAIN d THEN d[k] ELSE default

\* d.get(k): None when the key is absent
DictGetOpt(d, k) == IF k \in DOMAIN d THEN {d[k]} ELSE None

\* A Python str that holds output is the sequence of its code points, a bytes
\* object the sequence of its bytes.
EmptyText == <<>>

\* The bytes that can follow the first byte b1 of a UTF-8 sequence
SecondBytes(b1) ==
    CASE b1 = 224 -> 160..191
      [] b1 = 237 -> 128..159
      [] b1 = 240 -> 144..191
      [] b1 = 244 -> 128..143
      [] OTHER -> 128..191

\* Length of the UTF-8 sequence that the byte b1 starts; 0 when it starts none
SequenceLength(b1) ==
    CASE b1 \in 0..127 -> 1
      [] b1 \in 194..223 -> 2
      [] b1 \in 224..239 -> 3
      [] b1 \in 240..244 -> 4
      [] OTHER -> 0

\* Number of bytes at the head of bs that form a sequence or the longest
\* beginning of one, where the sequence started by bs[1] has length n
RECURSIVE WellFormed(_, _, _)
WellFormed(bs, n, k) ==
    IF k >= n \/ k >= Len(bs) THEN k
    ELSE IF bs[k + 1] \in (IF k = 1 THEN SecondBytes(bs[1]) ELSE 128..191)
    THEN WellFormed(bs, n, k + 1)
    ELSE k

\* The code point that a complete sequence of n bytes at the head of bs encodes
CodePoint(bs, n) ==
    CASE n = 1 -> bs[1]
      [] n = 2 -> (bs[1] - 192) * 64 + (bs[2] - 128)
      [] n = 3 -> (bs[1] - 224) * 4096 + (bs[2] - 128) * 64 + (bs[3] - 128)
      [] n = 4 -> (bs[1] - 240) * 262144 + (bs[2] - 128) * 4096
                      + (bs[3] - 128) * 64 + (bs[4] - 128)

\* U+FFFD, which errors="replace" puts in place of bytes that encode nothing
ReplacementCharacter == 65533

\* bytes.decode(errors="replace"): UTF-8; a byte that starts no sequence, and
\* each longest beginning of a sequence that is not completed, becomes one
\* replacement character.
RECURSIVE Decode(_)
Decode(bytes) ==
    IF bytes = <<>> THEN EmptyText
    ELSE LET n == SequenceLength(bytes[1])
             k == IF n = 0 THEN 1 ELSE WellFormed(bytes, n, 1)
             rest == SubSeq(bytes, k + 1, Len(bytes))
         IN IF n # 0 /\ k = n
            THEN <<CodePoint(bytes, n)>> \o Decode(rest)
            ELSE <<ReplacementCharacter>> \o Decode(rest)

\* "".join(lines)
RECURSIVE Join(_)
Join(lines) == IF lines = <<>> THEN EmptyText ELSE Head(lines) \o Join(Tail(lines))

\* ---------------------------------------------------------------------------
\* The command gate.  A command is a str: the sequence of its code points.
\* ---------------------------------------------------------------------------
\* The characters for which str.isspace() holds; strip() and \s use them
Whitespace ==
    (9..13) \cup (28..32) \cup {133, 160, 5760} \cup (8192..8202)
        \cup {8232, 8233, 8239, 8287, 12288}

LowerCase == <<"a", "b", "c", "d", "e", "f", "g", "h", "i", "j", "k", "l", "m",
               "n", "o", "p", "q", "r", "s", "t", "u", "v", "w", "x", "y", "z">>

\* ord(c) for the characters the model writes as characters
Ord(c) ==
    CASE c = "\n" -> 10
      [] c = " " -> 32
      [] c = "-" -> 45
      [] c = "/" -> 47
      [] c = ":" -> 58
      [] OTHER -> 96 + (CHOOSE i \in 1..Len(LowerCase) : LowerCase[i] = c)

\* The str made of the characters chars
Text(chars) == [i \in 1..Len(chars) |-> Ord(chars[i])]

UpperCase == 65..90
Letters == 97..122

\* re.I: the character of the pattern that the character c of the command is
\* compared with.  Besides A-Z, four characters match an ASCII letter:
\* U+0130 and U+0131 match i, U+017F matches s, U+212A matches k.
Lower(c) ==
    CASE c \in UpperCase -> c + 32
      [] c \in {304, 305} -> 105
      [] c = 383 -> 115
      [] c = 8490 -> 107
      [] OTHER -> c

\* command.strip()
RECURSIVE LStrip(_)
LStrip(cmd) ==
    IF cmd # <<>> /\ Head(cmd) \in Whitespace THEN LStrip(Tail(cmd)) ELSE cmd

RECURSIVE RStrip(_)
RStrip(cmd) ==
    IF cmd # <<>> /\ cmd[Len(cmd)] \in Whitespace
    THEN RStrip(SubSeq(cmd, 1, Len(cmd) - 1)) ELSE cmd

Strip(cmd) == RStrip(LStrip(cmd))

\* re.sub(r"\s+", " ", cmd): every run of whitespace becomes one blank
RECURSIVE Collapse(_)
Collapse(cmd) ==
    IF cmd = <<>> THEN <<>>
    ELSE IF Head(cmd) \in Whitespace
    THEN <<32>> \o Collapse(LStrip(cmd))
    ELSE <<Head(cmd)>> \o Collapse(Tail(cmd))

\* A pattern is a sequence of items: one character of a set ("one"), any
\* number of them ("star"), at least one ("plus"), or an optional group of
\* such items ("opt").
One(set) == [kind |-> "one", set |-> set]
Star(set) == [kind |-> "star", set |-> set]
Plus(set) == [kind |-> "plus", set |-> set]
Opt(group) == [kind |-> "opt", group |-> group]

\* every character of cmd after position p up to position q is in set
Run(cmd, set, p, q) == \A k \in (p + 1)..q : Lower(cmd[k]) \in set

\* The positions where a match of `items` can end when it starts at one of
\* the positions P of cmd (a position is the number of characters before it).
RECURSIVE MatchEnds(_, _, _)
MatchEnds(items, cmd, P) ==
    IF items = <<>> THEN P
    ELSE LET it == Head(items)
             after ==
                CASE it.kind = "one" ->
                        {p + 1 : p \in {q \in P : q < Len(cmd) /\ Lower(cmd[q + 1]) \in it.set}}
                  [] it.kind = "star" ->
                        {q \in 0..Len(cmd) : \E p \in P : p <= q /\ Run(cmd, it.set, p, q)}
                  [] it.kind = "plus" ->
                        {q \in 0..Len(cmd) : \E p \in P : p < q /\ Run(cmd, it.set, p, q)}
                  [] it.kind = "opt" ->
                        P \cup MatchEnds(it.group, cmd, P)
         IN MatchEnds(Tail(items), cmd, after)

\* (sudo\s+)?
Sudo ==
    Opt(<<One({Ord("s")}), One({Ord("u")}), One({Ord("d")}), One({Ord("o")}),
          Plus(Whitespace)>>)

\* ^(sudo\s+)?rm\s+(-[a-z]*f[a-z]*\s+)?/\s*$
PatternRm ==
    << Sudo, One({Ord("r")}), One({Ord("m")}), Plus(Whitespace),
       Opt(<<One({Ord("-")}), Star(Letters), One({Ord("f")}), Star(Letters),
             Plus(Whitespace)>>),
       One({Ord("/")}), Star(Whitespace) >>

\* ^(sudo\s+)?ls\s+(-[a-z]*r[a-z]*)
PatternLs ==
    << Sudo, One({Ord("l")}), One({Ord("s")}), Plus(Whitespace),
       One({Ord("-")}), Star(Letters), One({Ord("r")}), Star(Letters) >>

\* `$`: the end of the string, or just before a newline that ends it
AtEnd(cmd, p) == p = Len(cmd) \/ (p = Len(cmd) - 1 /\ cmd[Len(cmd)] = 10)

\* BLOCKED_PATTERNS[0].search(cmd), BLOCKED_PATTERNS[1].search(cmd)
MatchesRm(cmd) == \E p \in MatchEnds(PatternRm, cmd, {0}) : AtEnd(cmd, p)
MatchesLs(cmd) == MatchEnds(PatternLs, cmd, {0}) # {}

\* is_blocked_command: None, or the reason naming the first pattern matched
is_blocked_command(command) ==
    LET cmd == Collapse(Strip(command)) IN
    IF MatchesRm(cmd)
    THEN {"Blocked: command matches dangerous pattern (^(sudo\\s+)?rm\\s+(-[a-z]*f[a-z]*\\s+)?/\\s*$)"}
    ELSE IF MatchesLs(cmd)
    THEN {"Blocked: command matches dangerous pattern (^(sudo\\s+)?ls\\s+(-[a-z]*r[a-z]*))"}
    ELSE None

\* job_id in jobs
InRegistry(j) == \E i \in 1..Len(jobs) : jobs[i] = j

RECURSIVE SelectIds(_, _)
SelectIds(seq, keep) ==
    IF seq = <<>> THEN <<>>
    ELSE IF Head(seq) \in keep THEN <<Head(seq)>> \o SelectIds(Tail(seq), keep)
         ELSE SelectIds(Tail(seq), keep)

NoResp == [op |-> "none"]

\* ---------------------------------------------------------------------------
\* The dicts the code writes
\* ---------------------------------------------------------------------------
\* exec_command: the job record created at submission
NewJob(r, t) ==
    [status |-> "running", command |-> r.command, cwd |-> r.cwd,
     created_at |-> t, process |-> None]

\* run(): the update of the timeout branch
TimeoutResult(lines, t) ==
    [status |-> "timeout", stdout |-> Join(lines), stderr |-> EmptyText,
     returncode |-> TimeoutReturncode, finished_at |-> t]

\* run(): the update after the read loop ended and the child was waited for
FinishedResult(lines, rc, t) ==
    [status |-> "finished", stdout |-> Join(lines), stderr |-> EmptyText,
     returncode |-> rc, finished_at |-> t]

\* run(): the update of the except branch
ErrorResult(msg, t) ==
    [status |-> "error", error |-> msg, finished_at |-> t]

\* Mutant of CancelResult: the cancellation is not time-stamped.
CancelResult_NoStamp(t) ==
    [status |-> "cancelled"]

\* cancel_job: the update of an accepted cancellation
CancelResult(t) ==
    [status |-> "cancelled", finished_at |-> t]

\* Mutant of Expired: a job is deleted as soon as its age reaches the window.
Expired_AtWindow(t) ==
    {j \in JobIds :
        /\ InRegistry(j)
        /\ jobdict[j].status \in {"finished", "error", "cancelled", "timeout"}
        /\ t - DictGet(jobdict[j], "finished_at", t) >= JOB_TTL_SECONDS}

\* purge_old_jobs: the ids it deletes at time t
Expired(t) ==
    {j \in JobIds :
        /\ InRegistry(j)
        /\ jobdict[j].status \in {"finished", "error", "cancelled", "timeout"}
        /\ t - DictGet(jobdict[j], "finished_at", t) > JOB_TTL_SECONDS}

\* Mutant of Purged: the keys that remain come back in reverse order.
Purged_Reversed(t) ==
    LET kept == SelectIds(jobs, JobIds \ Expired(t))
    IN [i \in 1..Len(kept) |-> kept[Len(kept) + 1 - i]]

\* purge_old_jobs: the registry keys that remain
Purged(t) == SelectIds(jobs, JobIds \ Expired(t))

\* ---------------------------------------------------------------------------
\* The child process and the event loop around it
\* ---------------------------------------------------------------------------
\* proc.kill() raises ProcessLookupError once the transport has finished
\* (_check_proc: the transport's _proc is None).
KillRaises(j) == tclosed[j]

\* The exit status the loop's watcher reports for a child it finds collected
\* by someone else ("Unknown child process pid, will report returncode 255").
LostReturncode == 255

\* proc.kill() that does not raise (Popen.send_signal).  It polls the child
\* first.  A shell that is alive gets SIGKILL.  A shell that has exited and
\* that the watcher has not collected yet is either collected by this poll,
\* and the watcher then reports LostReturncode, or collected by the watcher,
\* which reports the status the shell exited with; no signal is sent.  A
\* shell whose status the transport knows is left alone.  Processes the shell
\* started are not signalled and keep their end of the pipe.
KillChild(j) ==
    CASE child[j] = "alive" ->
            /\ child' = [child EXCEPT ![j] = "dead"]
            /\ exitcode' = [exitcode EXCEPT ![j] = -9]
      [] child[j] = "dead" ->
            /\ child' = child
            /\ \E rc \in {exitcode[j], LostReturncode} :
                  exitcode' = [exitcode EXCEPT ![j] = rc]
      [] OTHER -> UNCHANGED <<child, exitcode>>

\* chunks of the child that are buffered or were appended
Written(j) == Len(output_lines[j]) + Len(pipe[j])

\* Mutant of Drained: the buffered lines are appended newest first.
RECURSIVE Drained_Reversed(_)
Drained_Reversed(p) ==
    IF p = <<>> \/ Head(p) = Overlong THEN <<>>
    ELSE Drained_Reversed(Tail(p)) \o <<Decode(Head(p))>>

\* read_stream: the lines one uninterrupted run of the loop appends from the
\* buffered chunks p: readline returns each buffered line without suspending,
\* and raises ValueError at a chunk longer than the limit.
RECURSIVE Drained(_)
Drained(p) ==
    IF p = <<>> \/ Head(p) = Overlong THEN <<>>
    ELSE <<Decode(Head(p))>> \o Drained(Tail(p))

ReadRaises(p) == \E i \in 1..Len(p) : p[i] = Overlong

\* The over-long chunk that makes readline raise is followed in the buffer by
\* a chunk that holds a newline.
NewlineBuffered(p) ==
    \E i \in 1..Len(p), k \in 1..Len(p) : i < k /\ p[i] = Overlong /\ p[k] # Overlong

Init ==
    /\ jobs = <<>>
    /\ jobdict = [j \in JobIds |-> EmptyDict]
    /\ output_lines = [j \in JobIds |-> <<>>]
    /\ req = [j \in JobIds |-> EmptyDict]
    /\ pc = [j \in JobIds |-> "idle"]
    /\ child = [j \in JobIds |-> "none"]
    /\ exitcode = [j \in JobIds |-> 0]
    /\ pipe = [j \in JobIds |-> <<>>]
    /\ eof = [j \in JobIds |-> FALSE]
    /\ tclosed = [j \in JobIds |-> FALSE]
    /\ kills = [j \in JobIds |-> 0]
    /\ read_start = [j \in JobIds |-> 0]
    /\ now = 0
    /\ ticks = 0
    /\ next_id = 1
    /\ resp = NoResp
    /\ subs = [s \in SubIds |-> IdleSub]

\* ---------------------------------------------------------------------------
\* POST /exec
\* ---------------------------------------------------------------------------
\* "echo hi" passes the gate.  The other two do not: "rm -Kf /" written with
\* a leading form feed, a no-break space before the blank and the Kelvin sign
\* (U+212A) for the k, and "sudo ls -lR" written with a long s (U+017F).
EchoHi == Text(<<"e", "c", "h", "o", " ", "h", "i">>)
RmRoot ==
    <<12>> \o Text(<<"r", "m">>) \o <<160>> \o Text(<<" ", "-">>) \o <<8490>>
        \o Text(<<"f", " ", "/">>)
SudoLs ==
    Text(<<"s", "u", "d", "o", " ", "l">>) \o <<383>> \o Text(<<" ", "-", "l">>)
        \o <<82>>
Commands == {EchoHi, RmRoot, SudoLs}

Requests == [command : Commands, cwd : {None}, timeout : Timeouts]

\* Mutant of GateAnswer: the gate lets every command through.
GateAnswer_Open == [c \in Commands |-> None]

\* The gate's answer for each command that is submitted
GateAnswer == [c \in Commands |-> is_blocked_command(c)]

exec_command(r) ==
    LET blocked == GateAnswer[r.command] IN
    IF blocked # None
    THEN /\ resp' = [op |-> "exec", code |-> 400,
                     detail |-> CHOOSE reason \in blocked : TRUE]
         /\ jobs' = Purged(now)
         /\ UNCHANGED <<jobdict, output_lines, req, pc, child, exitcode, pipe,
                        eof, tclosed, kills, read_start, now, ticks, next_id, subs>>
    ELSE /\ next_id <= MaxJobs
         /\ LET j == next_id IN
             /\ jobs' = Append(Purged(now), j)
             /\ jobdict' = [jobdict EXCEPT ![j] = NewJob(r, now)]
             /\ req' = [req EXCEPT ![j] = r]
             /\ pc' = [pc EXCEPT ![j] = "start"]
             /\ next_id' = j + 1
             /\ resp' = [op |-> "exec", code |-> 200, job_id |-> j]
         /\ UNCHANGED <<output_lines, child, exitcode, pipe, eof, tclosed, kills,
                        read_start, now, ticks, subs>>

\* ---------------------------------------------------------------------------
\* run(): the task of one job
\* ---------------------------------------------------------------------------
\* The except branch: jobs[job_id].update(error...).  When the key is gone the
\* update raises KeyError inside the handler and the exception leaves the task.
ExceptBranch(j, msg) ==
    IF InRegistry(j)
    THEN /\ jobdict' = [jobdict EXCEPT ![j] = DictUpdate(@, ErrorResult(msg, now))]
         /\ pc' = [pc EXCEPT ![j] = "done"]
    ELSE /\ jobdict' = jobdict
         /\ pc' = [pc EXCEPT ![j] = "crashed"]

\* jobs[job_id].update(u) inside the try block, ending the task.  A KeyError
\* is caught by the except branch.
RunnerUpdate(j, u) ==
    IF InRegistry(j)
    THEN /\ jobdict' = [jobdict EXCEPT ![j] = DictUpdate(@, u)]
         /\ pc' = [pc EXCEPT ![j] = "done"]
    ELSE ExceptBranch(j, "KeyError")

\* str(e) of the exceptions run() can catch
SpawnError == "[Errno 11] Resource temporarily unavailable"
LimitError == "Separator is not found, and chunk exceed the limit"
LongLineError == "Separator is found, but chunk is longer than limit"
KillError == ""

\* First stretch of run(): create_subprocess_shell starts the shell, or fails
\* (fork refused).
run_spawn(j, ok) ==
    /\ pc[j] = "start"
    /\ IF ok
       THEN /\ child' = [child EXCEPT ![j] = "alive"]
            /\ pc' = [pc EXCEPT ![j] = "spawning"]
            /\ jobdict' = jobdict
       ELSE /\ child' = child
            /\ ExceptBranch(j, SpawnError)
    /\ resp' = NoResp
    /\ UNCHANGED <<jobs, output_lines, req, exitcode, pipe, eof, tclosed, kills,
                   read_start, now, ticks, next_id, subs>>

\* create_subprocess_shell returns: the handle is stored, and wait_for starts
\* read_stream as a task of its own and its timer.
run_store(j) ==
    /\ pc[j] = "spawning"
    /\ IF InRegistry(j)
       THEN /\ jobdict' = [jobdict EXCEPT ![j] = DictUpdate(@, [process |-> {j}])]
            /\ pc' = [pc EXCEPT ![j] = "read"]
            /\ read_start' = [read_start EXCEPT ![j] = now]
       ELSE /\ ExceptBranch(j, "KeyError")
            /\ read_start' = read_start
    /\ resp' = NoResp
    /\ UNCHANGED <<jobs, output_lines, req, child, exitcode, pipe, eof, tclosed,
                   kills, now, ticks, next_id, subs>>

\* The read_stream task runs: it appends the lines the reader holds, and ends
\* when the reader was fed end of stream, or with the ValueError of readline,
\* whose message tells whether the newline of the over-long line is buffered.
\* run(), which waits in wait_for, resumes in a later iteration of the loop.
read_stream(j) ==
    /\ pc[j] \in {"read", "timer"}
    /\ pipe[j] # <<>> \/ eof[j]
    /\ output_lines' = [output_lines EXCEPT ![j] = @ \o Drained(pipe[j])]
    /\ pipe' = [pipe EXCEPT ![j] = <<>>]
    /\ pc' = [pc EXCEPT ![j] =
                IF ReadRaises(pipe[j])
                THEN IF NewlineBuffered(pipe[j])
                     THEN "read_raised_long" ELSE "read_raised"
                ELSE IF eof[j] THEN "read_ended"
                ELSE @]
    /\ resp' = NoResp
    /\ UNCHANGED <<jobs, jobdict, req, child, exitcode, eof, tclosed, kills,
                   read_start, now, ticks, next_id, subs>>

\* run() resumes after read_stream has ended: wait_for returns and proc.wait()
\* returns at once when the exit status is known; or wait_for raises what
\* read_stream raised, into the except branch.
run_resume(j) ==
    /\ pc[j] \in {"read_ended", "read_raised", "read_raised_long"}
    /\ IF pc[j] = "read_raised"
       THEN ExceptBranch(j, LimitError)
       ELSE IF pc[j] = "read_raised_long"
       THEN ExceptBranch(j, LongLineError)
       ELSE IF child[j] = "reaped"
       THEN RunnerUpdate(j, FinishedResult(output_lines[j], exitcode[j], now))
       ELSE /\ jobdict' = jobdict
            /\ pc' = [pc EXCEPT ![j] = "wait"]
    /\ resp' = NoResp
    /\ UNCHANGED <<jobs, output_lines, req, child, exitcode, pipe, eof, tclosed,
                   kills, read_start, now, ticks, next_id, subs>>

\* proc.wait() after the read loop returns: a wait that began with the exit
\* status unknown is woken when the transport finishes.
run_wait(j) ==
    /\ pc[j] = "wait"
    /\ tclosed[j]
    /\ RunnerUpdate(j, FinishedResult(output_lines[j], exitcode[j], now))
    /\ resp' = NoResp
    /\ UNCHANGED <<jobs, output_lines, req, child, exitcode, pipe, eof, tclosed,
                   kills, read_start, now, ticks, next_id, subs>>

\* The timer of wait_for fires while read_stream has not ended.  wait_for
\* resumes in a later iteration of the loop.
wait_for_timer(j) ==
    /\ pc[j] = "read"
    /\ now - read_start[j] >= req[j].timeout
    /\ pc' = [pc EXCEPT ![j] = "timer"]
    /\ resp' = NoResp
    /\ UNCHANGED <<jobs, jobdict, output_lines, req, child, exitcode, pipe, eof,
                   tclosed, kills, read_start, now, ticks, next_id, subs>>

\* wait_for resumes after its timer and finds read_stream not ended: it
\* cancels read_stream, which reads nothing more, and raises TimeoutError once
\* the cancellation is done.
wait_for_timeout(j) ==
    /\ pc[j] = "timer"
    /\ pc' = [pc EXCEPT ![j] = "timed_out"]
    /\ resp' = NoResp
    /\ UNCHANGED <<jobs, jobdict, output_lines, req, child, exitcode, pipe, eof,
                   tclosed, kills, read_start, now, ticks, next_id, subs>>

\* The timeout branch: proc.kill(), whose ProcessLookupError goes to the except
\* branch, then proc.wait(), which returns at once when the exit status is
\* known.
run_timeout(j) ==
    /\ pc[j] = "timed_out"
    /\ kills' = [kills EXCEPT ![j] = @ + 1]
    /\ IF KillRaises(j)
       THEN /\ ExceptBranch(j, KillError)
            /\ UNCHANGED <<child, exitcode>>
       ELSE /\ KillChild(j)
            /\ IF child[j] = "reaped"
               THEN RunnerUpdate(j, TimeoutResult(output_lines[j], now))
               ELSE /\ jobdict' = jobdict
                    /\ pc' = [pc EXCEPT ![j] = "timeout_wait"]
    /\ resp' = NoResp
    /\ UNCHANGED <<jobs, output_lines, req, pipe, eof, tclosed, read_start, now,
                   ticks, next_id, subs>>

\* proc.wait() of the timeout branch returns: it is woken when the transport
\* finishes, which needs the end of the pipe as well as the exit status.
run_timeout_wait(j) ==
    /\ pc[j] = "timeout_wait"
    /\ tclosed[j]
    /\ RunnerUpdate(j, TimeoutResult(output_lines[j], now))
    /\ resp' = NoResp
    /\ UNCHANGED <<jobs, output_lines, req, child, exitcode, pipe, eof, tclosed,
                   kills, read_start, now, ticks, next_id, subs>>

\* ---------------------------------------------------------------------------
\* The environment: the shell and the processes it starts, the event loop's
\* watcher, the clock
\* ---------------------------------------------------------------------------
\* The loop reads a line from the pipe and feeds it to the reader.  The line
\* was written by the shell or by a process it started, which can outlive it.
child_emit(j, c) ==
    /\ child[j] # "none" /\ ~eof[j]
    /\ Written(j) < MaxLines
    /\ pipe' = [pipe EXCEPT ![j] = Append(@, c)]
    /\ resp' = NoResp
    /\ UNCHANGED <<jobs, jobdict, output_lines, req, pc, child, exitcode, eof,
                   tclosed, kills, read_start, now, ticks, next_id, subs>>

\* The loop reads the end of the pipe and feeds end of stream to the reader:
\* every process that held the write end has closed it or has ended.  The
\* shell may be running or not.
child_close(j) ==
    /\ child[j] # "none" /\ ~eof[j]
    /\ eof' = [eof EXCEPT ![j] = TRUE]
    /\ resp' = NoResp
    /\ UNCHANGED <<jobs, jobdict, output_lines, req, pc, child, exitcode, pipe,
                   tclosed, kills, read_start, now, ticks, next_id, subs>>

\* The shell exits by itself.
child_exit(j, rc) ==
    /\ child[j] = "alive"
    /\ child' = [child EXCEPT ![j] = "dead"]
    /\ exitcode' = [exitcode EXCEPT ![j] = rc]
    /\ resp' = NoResp
    /\ UNCHANGED <<jobs, jobdict, output_lines, req, pc, pipe, eof, tclosed, kills,
                   read_start, now, ticks, next_id, subs>>

\* The loop's child watcher collects the exit status (_process_exited).
loop_reap(j) ==
    /\ child[j] = "dead"
    /\ child' = [child EXCEPT ![j] = "reaped"]
    /\ resp' = NoResp
    /\ UNCHANGED <<jobs, jobdict, output_lines, req, pc, exitcode, pipe, eof,
                   tclosed, kills, read_start, now, ticks, next_id, subs>>

\* Exit status known and pipe disconnected: the transport finishes
\* (_call_connection_lost), wakes the waits in progress and drops its process
\* handle.
transport_finish(j) ==
    /\ child[j] = "reaped" /\ eof[j] /\ ~tclosed[j]
    /\ tclosed' = [tclosed EXCEPT ![j] = TRUE]
    /\ resp' = NoResp
    /\ UNCHANGED <<jobs, jobdict, output_lines, req, pc, child, exitcode, pipe,
                   eof, kills, read_start, now, ticks, next_id, subs>>

\* A read loop whose deadline lies ahead
DeadlinePending ==
    \E j \in JobIds : pc[j] = "read" /\ now - read_start[j] < req[j].timeout

\* The clock.  It advances MaxTicks times, and beyond that for as long as a
\* read loop waits for its deadline.
tick(d) ==
    /\ ticks < MaxTicks \/ DeadlinePending
    /\ now' = now + d
    /\ ticks' = ticks + 1
    /\ resp' = NoResp
    /\ UNCHANGED <<jobs, jobdict, output_lines, req, pc, child, exitcode, pipe,
                   eof, tclosed, kills, read_start, next_id, subs>>

\* ---------------------------------------------------------------------------
\* The other request handlers
\* ---------------------------------------------------------------------------
NotFound(name, j) == [op |-> name, code |-> 404, job_id |-> j]

\* Mutant of NotRunning: every cancel is taken as one of a running job.
NotRunning_Never(job) == FALSE

\* cancel_job: the test that makes a cancel of a finished job a no-op
NotRunning(job) == job.status # "running"

\* Mutant of cancel_job: ProcessLookupError is not caught, the handler fails.
cancel_job_Uncaught(j) ==
    IF ~InRegistry(j)
    THEN /\ resp' = NotFound("cancel", j)
         /\ UNCHANGED <<jobs, jobdict, output_lines, req, pc, child, exitcode,
                        pipe, eof, tclosed, kills, read_start, now, ticks, next_id, subs>>
    ELSE IF NotRunning(jobdict[j])
    THEN /\ resp' = [op |-> "cancel", code |-> 200, job_id |-> j,
                     message |-> "Job is already " \o jobdict[j].status]
         /\ UNCHANGED <<jobs, jobdict, output_lines, req, pc, child, exitcode,
                        pipe, eof, tclosed, kills, read_start, now, ticks, next_id, subs>>
    ELSE IF jobdict[j].process # None /\ KillRaises(j)
    THEN /\ kills' = [kills EXCEPT ![j] = @ + 1]
         /\ resp' = [op |-> "cancel", code |-> 500, job_id |-> j]
         /\ UNCHANGED <<jobs, jobdict, output_lines, req, pc, child, exitcode,
                        pipe, eof, tclosed, read_start, now, ticks, next_id, subs>>
    ELSE /\ IF jobdict[j].process # None
            THEN /\ kills' = [kills EXCEPT ![j] = @ + 1]
                 /\ KillChild(j)
            ELSE UNCHANGED <<kills, child, exitcode>>
         /\ jobdict' = [jobdict EXCEPT ![j] = DictUpdate(@, CancelResult(now))]
         /\ resp' = [op |-> "cancel", code |-> 200, job_id |-> j,
                     message |-> "Job cancelled"]
         /\ UNCHANGED <<jobs, output_lines, req, pc, pipe, eof, tclosed, read_start,
                        now, ticks, next_id, subs>>

\* POST /cancel/{job_id}
cancel_job(j) ==
    IF ~InRegistry(j)
    THEN /\ resp' = NotFound("cancel", j)
         /\ UNCHANGED <<jobs, jobdict, output_lines, req, pc, child, exitcode,
                        pipe, eof, tclosed, kills, read_start, now, ticks, next_id, subs>>
    ELSE IF NotRunning(jobdict[j])
    THEN /\ resp' = [op |-> "cancel", code |-> 200, job_id |-> j,
                     message |-> "Job is already " \o jobdict[j].status]
         /\ UNCHANGED <<jobs, jobdict, output_lines, req, pc, child, exitcode,
                        pipe, eof, tclosed, kills, read_start, now, ticks, next_id, subs>>
    ELSE /\ IF jobdict[j].process # None
            THEN /\ kills' = [kills EXCEPT ![j] = @ + 1]
                 /\ IF KillRaises(j)
                    THEN UNCHANGED <<child, exitcode>>
                    ELSE KillChild(j)
            ELSE UNCHANGED <<kills, child, exitcode>>
         /\ jobdict' = [jobdict EXCEPT ![j] = DictUpdate(@, CancelResult(now))]
         /\ resp' = [op |-> "cancel", code |-> 200, job_id |-> j,
                     message |-> "Job cancelled"]
         /\ UNCHANGED <<jobs, output_lines, req, pc, pipe, eof, tclosed, read_start,
                        now, ticks, next_id, subs>>

\* GET /status/{job_id}
status(j) ==
    /\ resp' = IF ~InRegistry(j) THEN NotFound("status", j)
               ELSE [op |-> "status", code |-> 200, job_id |-> j,
                     status |-> jobdict[j].status,
                     command |-> DictGet(jobdict[j], "command", EmptyText)]
    /\ UNCHANGED <<jobs, jobdict, output_lines, req, pc, child, exitcode, pipe,
                   eof, tclosed, kills, read_start, now, ticks, next_id, subs>>

\* GET /result/{job_id}
result(j) ==
    /\ resp' = IF ~InRegistry(j) THEN NotFound("result", j)
               ELSE [op |-> "result", code |-> 200, job_id |-> j,
                     status |-> jobdict[j].status,
                     stdout |-> DictGet(jobdict[j], "stdout", EmptyText),
                     stderr |-> DictGet(jobdict[j], "stderr", EmptyText),
                     returncode |-> DictGetOpt(jobdict[j], "returncode"),
                     error |-> DictGetOpt(jobdict[j], "error")]
    /\ UNCHANGED <<jobs, jobdict, output_lines, req, pc, child, exitcode, pipe,
                   eof, tclosed, kills, read_start, now, ticks, next_id, subs>>

\* Mutant of Summary: the summary shows the status the job was created with.
Summary_AtCreation(j) ==
    [job_id |-> j, status |-> "running",
     command |-> DictGet(jobdict[j], "command", EmptyText),
     created_at |-> DictGetOpt(jobdict[j], "created_at")]

\* GET /jobs: the summary of one job
Summary(j) ==
    [job_id |-> j, status |-> jobdict[j].status,
     command |-> DictGet(jobdict[j], "command", EmptyText),
     created_at |-> DictGetOpt(jobdict[j], "created_at")]

list_jobs ==
    /\ jobs' = Purged(now)
    /\ resp' = [op |-> "list", code |-> 200,
                jobs |-> [i \in 1..Len(jobs') |-> Summary(jobs'[i])]]
    /\ UNCHANGED <<jobdict, output_lines, req, pc, child, exitcode, pipe, eof,
                   tclosed, kills, read_start, now, ticks, next_id, subs>>

\* ---------------------------------------------------------------------------
\* GET /exec/stream/{job_id}
\* ---------------------------------------------------------------------------
DataPrefix == Text(<<"d", "a", "t", "a", ":", " ">>)
DonePrefix ==
    Text(<<"e", "v", "e", "n", "t", ":", " ", "d", "o", "n", "e", "\n",
           "d", "a", "t", "a", ":", " ">>)
StatusText ==
    [st \in {"running"} \cup TerminalStatuses |->
        CASE st = "running" -> Text(<<"r", "u", "n", "n", "i", "n", "g">>)
          [] st = "finished" -> Text(<<"f", "i", "n", "i", "s", "h", "e", "d">>)
          [] st = "error" -> Text(<<"e", "r", "r", "o", "r">>)
          [] st = "cancelled" ->
                Text(<<"c", "a", "n", "c", "e", "l", "l", "e", "d">>)
          [] st = "timeout" -> Text(<<"t", "i", "m", "e", "o", "u", "t">>)]

\* f"data: {line}\n" and f"event: done\ndata: {status}\n\n"
LineEnd == Text(<<"\n">>)
EventEnd == Text(<<"\n", "\n">>)
DataEvent(line) == DataPrefix \o line \o LineEnd
DoneEvent(st) == DonePrefix \o StatusText[st] \o EventEnd

CoreVars == <<jobs, jobdict, output_lines, req, pc, child, exitcode, pipe, eof,
              tclosed, kills, read_start, now, ticks, next_id>>

\* The handler: 404 for an unknown job, else a response fed by a new
\* event_generator, which has not run yet.
stream_output(s, j) ==
    /\ subs[s].pc = "idle"
    /\ IF ~InRegistry(j)
       THEN /\ resp' = NotFound("stream", j)
            /\ subs' = subs
       ELSE /\ resp' = [op |-> "stream", code |-> 200, job_id |-> j]
            /\ subs' = [subs EXCEPT ![s] =
                          [pc |-> "new", job_id |-> j, idx |-> 0, events |-> <<>>]]
    /\ UNCHANGED CoreVars

\* Mutant of Inner: the status is tested before the lines are delivered.
Inner_EarlyDone(sub, i) ==
    LET j == sub.job_id IN
    IF jobdict[j].status # "running"
    THEN [sub EXCEPT !.pc = "closed", !.idx = i,
                     !.events = Append(@, DoneEvent(jobdict[j].status))]
    ELSE IF i < Len(output_lines[j])
    THEN [sub EXCEPT !.pc = "yield", !.idx = i,
                     !.events = Append(@, DataEvent(output_lines[j][i + 1]))]
    ELSE [sub EXCEPT !.pc = "sleep", !.idx = i]

\* event_generator from the test of the inner while loop, with `job` and
\* `lines` bound, up to its next yield, sleep or end: the subscriber's state
\* when its cursor is i.
Inner(sub, i) ==
    LET j == sub.job_id IN
    IF i < Len(output_lines[j])
    THEN [sub EXCEPT !.pc = "yield", !.idx = i,
                     !.events = Append(@, DataEvent(output_lines[j][i + 1]))]
    ELSE IF jobdict[j].status # "running"
    THEN [sub EXCEPT !.pc = "closed", !.idx = i,
                     !.events = Append(@, DoneEvent(jobdict[j].status))]
    ELSE [sub EXCEPT !.pc = "sleep", !.idx = i]

\* Top of the outer loop, on the first run and after each sleep: the job is
\* looked up again, and the stream ends silently when it is gone.
gen_loop(s) ==
    /\ subs[s].pc \in {"new", "sleep"}
    /\ subs' = [subs EXCEPT ![s] =
                  IF ~InRegistry(@.job_id) THEN [@ EXCEPT !.pc = "closed"]
                  ELSE Inner(@, @.idx)]
    /\ resp' = NoResp
    /\ UNCHANGED CoreVars

\* The consumer took the yielded event: idx += 1 and the inner loop goes on,
\* with the `job` it looked up before.
gen_resume(s) ==
    /\ subs[s].pc = "yield"
    /\ subs' = [subs EXCEPT ![s] = Inner(@, @.idx + 1)]
    /\ resp' = NoResp
    /\ UNCHANGED CoreVars

\* ---------------------------------------------------------------------------
\* Specification
\* ---------------------------------------------------------------------------
\* Spec follows one job through every interleaving of its task, its child, the
\* clock and the request handlers.
FirstJob == next_id = 1

\* A submission the gate refuses starts nothing and can come at any time; one
\* job is started.
Submittable(r) == FirstJob \/ GateAnswer[r.command] # None

\* A request can name a job only after the response carrying its id was sent.
\* The first stretch of run() was queued on the loop before that response, so
\* it has run by the time any such request is handled.
Addressable(j) == pc[j] # "start"

\* The ids handed out so far: the ids a request can carry.  A request for one
\* of them is answered 404 once the job was purged.
Issued == {j \in JobIds : j < next_id}

Next ==
    \/ \E r \in Requests : Submittable(r) /\ exec_command(r)
    \/ \E j \in JobIds, ok \in BOOLEAN : run_spawn(j, ok)
    \/ \E j \in JobIds : run_store(j)
    \/ \E j \in JobIds : read_stream(j)
    \/ \E j \in JobIds : run_resume(j)
    \/ \E j \in JobIds : run_wait(j)
    \/ \E j \in JobIds : wait_for_timer(j)
    \/ \E j \in JobIds : wait_for_timeout(j)
    \/ \E j \in JobIds : run_timeout(j)
    \/ \E j \in JobIds : run_timeout_wait(j)
    \/ \E j \in JobIds : \E c \in Chunks(Written(j) + 1) : child_emit(j, c)
    \/ \E j \in JobIds : child_close(j)
    \/ \E j \in JobIds, rc \in ExitCodes : child_exit(j, rc)
    \/ \E j \in JobIds : loop_reap(j)
    \/ \E j \in JobIds : transport_finish(j)
    \/ \E d \in TickSteps : tick(d)
    \/ \E j \in Issued : Addressable(j) /\ cancel_job(j)
    \/ \E j \in Issued : Addressable(j) /\ status(j)
    \/ \E j \in Issued : Addressable(j) /\ result(j)
    \/ list_jobs

Spec == Init /\ [][Next]_vars

\* SpecStream follows one job and its subscribers.  The job's command runs
\* with the default timeout, its shell starts, lines arrive on the pipe, the
\* pipe is closed, and the shell exits with status 0 or is killed.
StreamRequests == [command : {EchoHi}, cwd : {None}, timeout : {DefaultTimeout}]

StreamNext ==
    \/ \E r \in StreamRequests : Submittable(r) /\ exec_command(r)
    \/ \E j \in JobIds : run_spawn(j, TRUE)
    \/ \E j \in JobIds : run_store(j)
    \/ \E j \in JobIds : read_stream(j)
    \/ \E j \in JobIds : run_resume(j)
    \/ \E j \in JobIds : run_wait(j)
    \/ \E j \in JobIds : wait_for_timer(j)
    \/ \E j \in JobIds : wait_for_timeout(j)
    \/ \E j \in JobIds : run_timeout(j)
    \/ \E j \in JobIds : run_timeout_wait(j)
    \/ \E j \in JobIds : child_emit(j, LineAt(Written(j) + 1))
    \/ \E j \in JobIds : child_close(j)
    \/ \E j \in JobIds : child_exit(j, 0)
    \/ \E j \in JobIds : loop_reap(j)
    \/ \E j \in JobIds : transport_finish(j)
    \/ \E d \in TickSteps : tick(d)
    \/ \E j \in Issued : Addressable(j) /\ cancel_job(j)
    \/ list_jobs
    \/ \E s \in SubIds, j \in Issued : Addressable(j) /\ stream_output(s, j)
    \/ \E s \in SubIds : gen_loop(s)
    \/ \E s \in SubIds : gen_resume(s)

SpecStream == Init /\ [][StreamNext]_vars

\* SpecSingleStream is SpecStream with one subscriber.
SingleStreamNext ==
    \/ \E r \in StreamRequests : Submittable(r) /\ exec_command(r)
    \/ \E j \in JobIds : run_spawn(j, TRUE)
    \/ \E j \in JobIds : run_store(j)
    \/ \E j \in JobIds : read_stream(j)
    \/ \E j \in JobIds : run_resume(j)
    \/ \E j \in JobIds : run_wait(j)
    \/ \E j \in JobIds : wait_for_timer(j)
    \/ \E j \in JobIds : wait_for_timeout(j)
    \/ \E j \in JobIds : run_timeout(j)
    \/ \E j \in JobIds : run_timeout_wait(j)
    \/ \E j \in JobIds : child_emit(j, LineAt(Written(j) + 1))
    \/ \E j \in JobIds : child_close(j)
    \/ \E j \in JobIds : child_exit(j, 0)
    \/ \E j \in JobIds : loop_reap(j)
    \/ \E j \in JobIds : transport_finish(j)
    \/ \E d \in TickSteps : tick(d)
    \/ \E j \in Issued : Addressable(j) /\ cancel_job(j)
    \/ list_jobs
    \/ \E s \in {1}, j \in Issued : Addressable(j) /\ stream_output(s, j)
    \/ \E s \in {1} : gen_loop(s)
    \/ \E s \in {1} : gen_resume(s)

SpecSingleStream == Init /\ [][SingleStreamNext]_vars

\* SpecRegistry follows several jobs in the registry, submitted one after the
\* other: a job is submitted when the runners of the jobs before it have
\* ended.  Each command runs with the default timeout, its shell starts,
\* nothing is written to the pipe, the pipe is closed, and the shell exits
\* with status 0 or is killed.  Clients submit, cancel early and list.
RunnersEnded == \A j \in Issued : pc[j] \in {"done", "crashed"}

\* A client of SpecRegistry cancels a job, if at all, right after submitting
\* it: while create_subprocess_shell has not returned.
EarlyCancel(j) == pc[j] = "spawning"

RegistryNext ==
    \/ \E r \in StreamRequests : RunnersEnded /\ exec_command(r)
    \/ \E j \in JobIds : run_spawn(j, TRUE)
    \/ \E j \in JobIds : run_store(j)
    \/ \E j \in JobIds : read_stream(j)
    \/ \E j \in JobIds : run_resume(j)
    \/ \E j \in JobIds : run_wait(j)
    \/ \E j \in JobIds : wait_for_timer(j)
    \/ \E j \in JobIds : wait_for_timeout(j)
    \/ \E j \in JobIds : run_timeout(j)
    \/ \E j \in JobIds : run_timeout_wait(j)
    \/ \E j \in JobIds : child_close(j)
    \/ \E j \in JobIds : child_exit(j, 0)
    \/ \E j \in JobIds : loop_reap(j)
    \/ \E j \in JobIds : transport_finish(j)
    \/ \E d \in TickSteps : tick(d)
    \/ \E j \in Issued : EarlyCancel(j) /\ cancel_job(j)
    \/ list_jobs

SpecRegistry == Init /\ [][RegistryNext]_vars

\* The event loop runs every task that can run, collects the exit status of a
\* dead child and finishes its transport, and the clock advances.  Nothing
\* makes a child write, close its output or exit, and no client has to send a
\* request.
Fairness ==
    /\ \A j \in JobIds :
        /\ WF_vars(\E ok \in BOOLEAN : run_spawn(j, ok))
        /\ WF_vars(run_store(j))
        /\ WF_vars(read_stream(j))
        /\ WF_vars(run_resume(j))
        /\ WF_vars(run_wait(j))
        /\ WF_vars(wait_for_timer(j))
        /\ WF_vars(wait_for_timeout(j))
        /\ WF_vars(run_timeout(j))
        /\ WF_vars(run_timeout_wait(j))
        /\ WF_vars(loop_reap(j))
        /\ WF_vars(transport_finish(j))
    /\ WF_vars(\E d \in TickSteps : tick(d))

FairSpec == Spec /\ Fairness

\* ---------------------------------------------------------------------------
\* Properties
\* ---------------------------------------------------------------------------
Status(j) == jobdict[j].status
Terminal(j) == InRegistry(j) /\ Status(j) \in TerminalStatuses
Running(j) == InRegistry(j) /\ Status(j) = "running"

\* C1: once a job's status is terminal it never changes again, neither back to
\* running nor to another terminal status.
C1_StatusChangesOnce ==
    [][\A j \in JobIds : Terminal(j) => jobdict'[j].status = jobdict[j].status]_vars

\* C2: once a job's status has left running, no line is appended to its
\* output.
C2_OutputFrozen ==
    [][\A j \in JobIds : Terminal(j) => output_lines'[j] = output_lines[j]]_vars

\* The response of an accepted cancellation
CancelAccepted ==
    resp.op = "cancel" /\ resp.code = 200 /\ resp.message = "Job cancelled"

\* C3: when a cancellation is accepted, the job's child has been terminated:
\* it is neither alive nor still to be started.
C3_CancelKillsChild ==
    CancelAccepted => child[resp.job_id] \in {"dead", "reaped"}

\* C4: for every job in the registry, finished_at is set if and only if the
\* status is terminal.
C4_FinishedAtIffTerminal ==
    \A j \in JobIds :
        InRegistry(j) =>
            (("finished_at" \in DOMAIN jobdict[j]) <=> Status(j) \in TerminalStatuses)

C4_Witness ==
    \E j \in JobIds :
        /\ Terminal(j) /\ Status(j) = "cancelled"
        /\ "finished_at" \in DOMAIN jobdict[j]
        /\ pc[j] = "read"

\* C5: once the timer of a job's read loop has fired with the loop not at end
\* of stream, the runner leaves the loop only through the timeout branch: it
\* sends the kill, and it ends only with the child reaped, by recording status
\* timeout, returncode -1 and the concatenation of the captured lines as
\* stdout.
C5_TimeoutRecorded ==
    [][\A j \in JobIds :
        /\ pc[j] = "timer" => pc'[j] \in {"timer", "timed_out"}
        /\ (pc[j] = "timed_out" /\ pc'[j] # "timed_out") =>
              kills'[j] = kills[j] + 1
        /\ (pc[j] \in {"timed_out", "timeout_wait"}
              /\ pc'[j] \notin {"timed_out", "timeout_wait"}) =>
              /\ child'[j] = "reaped"
              /\ pc'[j] = "done"
              /\ jobdict'[j].status = "timeout"
              /\ jobdict'[j].returncode = TimeoutReturncode
              /\ jobdict'[j].stdout = Join(output_lines[j])]_vars

\* C7: cancelling a job that is not running reports its status and changes
\* nothing: no kill is sent, and status, finished_at and output stay as they
\* were.
C7_CancelTerminalNoOp ==
    [][\A j \in JobIds :
        (resp'.op = "cancel" /\ resp'.job_id = j /\ Terminal(j)) =>
            /\ resp'.code = 200
            /\ resp'.message = "Job is already " \o Status(j)
            /\ kills'[j] = kills[j]
            /\ child'[j] = child[j]
            /\ jobdict'[j] = jobdict[j]
            /\ output_lines'[j] = output_lines[j]]_vars

C7_Witness ==
    /\ resp.op = "cancel" /\ resp.code = 200
    /\ resp.message = "Job is already cancelled"
    /\ kills[resp.job_id] = 1

\* C8: a cancel of a running job whose child has already exited, so that the
\* kill finds no process, is answered as a cancellation and leaves the job in
\* a terminal status with its output intact; the status stays terminal.
C8_CancelAfterExit ==
    [][\A j \in JobIds :
        /\ (resp'.op = "cancel" /\ resp'.job_id = j /\ Running(j)
              /\ child[j] \in {"dead", "reaped"}) =>
                /\ resp'.code = 200
                /\ resp'.message = "Job cancelled"
                /\ jobdict'[j].status \in TerminalStatuses
                /\ output_lines'[j] = output_lines[j]
        /\ (Terminal(j) /\ InRegistry(j)') => jobdict'[j].status \in TerminalStatuses]_vars

C8_Witness ==
    /\ CancelAccepted
    /\ tclosed[resp.job_id]
    /\ jobdict[resp.job_id].process # None
    /\ kills[resp.job_id] = 1
    /\ output_lines[resp.job_id] # <<>>

\* C9: get_result reports no stdout, returncode or error while the job runs,
\* and in every terminal status its stdout is the concatenation of the job's
\* captured output lines.
C9_ResultStdout ==
    (resp.op = "result" /\ resp.code = 200) =>
        /\ resp.status = "running" =>
              (resp.stdout = EmptyText /\ resp.returncode = None /\ resp.error = None)
        /\ resp.status \in TerminalStatuses =>
              resp.stdout = Join(output_lines[resp.job_id])

\* C10: under fair scheduling every job that is running eventually stops
\* being so, whatever its child does.
C10_EveryJobEnds ==
    \A j \in JobIds : Running(j) ~> ~Running(j)

\* The events a stream sends for output lines `lines` and final status st
RECURSIVE DataEvents(_)
DataEvents(lines) ==
    IF lines = <<>> THEN <<>>
    ELSE <<DataEvent(Head(lines))>> \o DataEvents(Tail(lines))

StreamDone(s) ==
    /\ subs[s].pc = "closed"
    /\ subs[s].events # <<>>
    /\ \E st \in TerminalStatuses :
          subs[s].events[Len(subs[s].events)] = DoneEvent(st)

\* C6: two subscribers of a job whose streams have ended with a done marker
\* have both received the job's complete output, in order from the first
\* line, and the same marker.
C6_SubscribersAgree ==
    \A s1, s2 \in SubIds :
        (StreamDone(s1) /\ StreamDone(s2) /\ subs[s1].job_id = subs[s2].job_id) =>
            /\ subs[s1].events = subs[s2].events
            /\ SubSeq(subs[s1].events, 1, Len(subs[s1].events) - 1)
                  = DataEvents(output_lines[subs[s1].job_id])

\* C11: no failure of a runner task escapes it: a task never ends with an
\* exception that was raised while it handled a failure.
C11_NoEscape ==
    \A j \in JobIds : pc[j] # "crashed"

\* The submitted commands that match a pattern of the deny-list
Denied ==
    {c \in Commands : MatchesRm(Collapse(Strip(c))) \/ MatchesLs(Collapse(Strip(c)))}

\* C12: a submission of a command that matches a deny-list pattern is answered
\* with a rejection and creates nothing: no id is handed out, no key is added
\* to the registry, no record is written, no runner and no child is started.
C12_DeniedNeverCreates ==
    [][\A r \in Requests :
        (r.command \in Denied /\ exec_command(r)) =>
            /\ resp'.op = "exec" /\ resp'.code = 400
            /\ next_id' = next_id
            /\ \A i \in 1..Len(jobs') : InRegistry(jobs'[i])
            /\ jobdict' = jobdict
            /\ pc' = pc
            /\ child' = child]_vars

C12_Witness ==
    /\ resp.op = "exec" /\ resp.code = 400
    /\ next_id = 2
    /\ jobs = <<1>>
    /\ pc[1] = "read"
    /\ \A j \in JobIds : j >= next_id => (pc[j] = "idle" /\ child[j] = "none")

\* A terminal job whose age is beyond the retention window
Stale(j) == Terminal(j) /\ now - jobdict[j].finished_at > JOB_TTL_SECONDS

\* The handlers that purge: submission and list
PurgeStep == resp'.op \in {"exec", "list"}

\* C13: a purge removes the terminal jobs whose age exceeds the retention
\* window and no other job, it keeps the order of the jobs that stay, and no
\* step that is not a purge removes a job.
C13_PurgeExact ==
    [][/\ PurgeStep =>
            /\ \A j \in JobIds : InRegistry(j) => (InRegistry(j)' <=> ~Stale(j))
            /\ \A i \in 1..Len(jobs), k \in 1..Len(jobs) :
                  (i < k /\ ~Stale(jobs[i]) /\ ~Stale(jobs[k])) =>
                      \E m \in 1..Len(jobs'), n \in 1..Len(jobs') :
                          m < n /\ jobs'[m] = jobs[i] /\ jobs'[n] = jobs[k]
       /\ ~PurgeStep => jobs' = jobs]_vars

C13_Witness ==
    /\ resp.op = "list"
    /\ next_id = 3
    /\ jobs = <<2>>
    /\ Terminal(2)
    /\ now - jobdict[2].finished_at = JOB_TTL_SECONDS

\* C14: a list response holds one summary for each job in the registry and
\* no other, in the order of submission (ids are handed out in that order),
\* and each summary shows the job's status and time of creation.
C14_ListInOrder ==
    resp.op = "list" =>
        /\ Len(resp.jobs) = Len(jobs)
        /\ \A j \in JobIds :
              InRegistry(j) <=> \E i \in 1..Len(resp.jobs) : resp.jobs[i].job_id = j
        /\ \A i \in 1..Len(resp.jobs), k \in 1..Len(resp.jobs) :
              i < k =>
                  /\ resp.jobs[i].job_id < resp.jobs[k].job_id
                  /\ \A a \in resp.jobs[i].created_at, b \in resp.jobs[k].created_at : a <= b
        /\ \A i \in 1..Len(resp.jobs) :
              /\ resp.jobs[i].status = jobdict[resp.jobs[i].job_id].status
              /\ resp.jobs[i].created_at = {jobdict[resp.jobs[i].job_id].created_at}

C14_Witness ==
    /\ resp.op = "list"
    /\ Len(resp.jobs) = 2
    /\ resp.jobs[1].job_id = 1 /\ resp.jobs[1].status \in TerminalStatuses
    /\ resp.jobs[2].job_id = 2 /\ resp.jobs[2].status = "running"
    /\ pc[2] = "start"

\* C15: once a job's finished_at is set, no step changes its value.
C15_FinishedAtOnce ==
    [][\A j \in JobIds :
        "finished_at" \in DOMAIN jobdict[j] =>
            /\ "finished_at" \in DOMAIN jobdict'[j]
            /\ jobdict'[j].finished_at = jobdict[j].finished_at]_vars

\* A step of the runner task of job j
RunnerStep(j) ==
    \/ \E ok \in BOOLEAN : run_spawn(j, ok)
    \/ run_store(j)
    \/ read_stream(j)
    \/ run_resume(j)
    \/ run_wait(j)
    \/ wait_for_timer(j)
    \/ wait_for_timeout(j)
    \/ run_timeout(j)
    \/ run_timeout_wait(j)

\* status and finished_at of a record
Outcome(job) == <<job.status, DictGetOpt(job, "finished_at")>>

\* C16: once a job is created, every step that changes its status, its
\* finished_at or its output is a step of the job's own runner task.
C16_SingleWriter ==
    [][\A j \in JobIds :
        (/\ jobdict[j] # EmptyDict
         /\ \/ Outcome(jobdict'[j]) # Outcome(jobdict[j])
            \/ output_lines'[j] # output_lines[j]) => RunnerStep(j)]_vars

\* A stream that was opened and has not ended
Open(s) == subs[s].pc \in {"new", "yield", "sleep"}

\* The step sends a done marker on stream s
DoneSent(s) ==
    /\ Open(s)
    /\ \E st \in TerminalStatuses \cup {"running"} :
          subs'[s].events = Append(subs[s].events, DoneEvent(st))

\* The parts of C17 that do not depend on how a removal is noticed: a done
\* marker carries the terminal status the job has, comes when the events sent
\* before it are the job's whole output, and ends the stream; an ended stream
\* sends nothing more; a stream does not end without a marker while its job is
\* in the registry.
StreamEnding(s) ==
    /\ DoneSent(s) =>
          LET j == subs[s].job_id IN
          /\ jobdict[j].status \in TerminalStatuses
          /\ subs'[s].events =
                DataEvents(output_lines[j]) \o <<DoneEvent(jobdict[j].status)>>
          /\ subs'[s].pc = "closed"
    /\ subs[s].pc = "closed" => subs'[s] = subs[s]
    /\ (Open(s) /\ subs'[s].pc = "closed" /\ InRegistry(subs[s].job_id)) => DoneSent(s)

\* A stream is open as long as its job is in the registry and running
StaysOpen ==
    \A s \in SubIds :
        (subs[s].pc # "idle" /\ Running(subs[s].job_id)) => Open(s)

\* C17 as stated: with the above, a stream whose job has been removed from the
\* registry ends without a done marker.
C17_StreamClose ==
    [][/\ StaysOpen
       /\ \A s \in SubIds :
            /\ StreamEnding(s)
            /\ (Open(s) /\ subs'[s].pc = "closed" /\ ~InRegistry(subs[s].job_id))
                  => ~DoneSent(s)]_vars

\* C17 as amended: a removal is noticed when the stream looks the job up, which
\* it does before its first event and after each sleep; a stream that finds
\* its job removed then ends without a done marker.
C17_StreamCloseAtLookup ==
    [][/\ StaysOpen
       /\ \A s \in SubIds :
            /\ StreamEnding(s)
            /\ (subs[s].pc \in {"new", "sleep"} /\ subs'[s] # subs[s]
                  /\ ~InRegistry(subs[s].job_id))
                  => (subs'[s].pc = "closed" /\ subs'[s].events = subs[s].events)]_vars

C17_Witness ==
    \E s \in SubIds :
        /\ subs[s].pc = "closed"
        /\ Len(subs[s].events) = MaxLines
        /\ subs[s].events = DataEvents(output_lines[subs[s].job_id])
        /\ ~InRegistry(subs[s].job_id)

IsPrefix(a, b) == Len(a) <= Len(b) /\ a = SubSeq(b, 1, Len(a))

\* The data events a subscriber has received
DataPart(sub) ==
    IF sub.events # <<>>
       /\ \E st \in TerminalStatuses : sub.events[Len(sub.events)] = DoneEvent(st)
    THEN SubSeq(sub.events, 1, Len(sub.events) - 1)
    ELSE sub.events

\* The text of the k-th line the child writes
WrittenLine == [k \in 1..MaxLines |-> Decode(LineAt(k))]

\* C18: in every step a job's output keeps what it had and grows at its end
\* only; it grows only in the read loop of the job's runner, by the decoded
\* chunks at the head of the child's pipe, in their order, so that its k-th
\* line is the k-th line the child wrote; and what a stream has delivered is
\* at any moment a prefix of the job's output.
C18_AppendOnly ==
    [][/\ \A j \in JobIds :
            /\ IsPrefix(output_lines[j], output_lines'[j])
            /\ output_lines'[j] # output_lines[j] =>
                  /\ read_stream(j)
                  /\ \E n \in 1..Len(pipe[j]) :
                        output_lines'[j] =
                            output_lines[j] \o [i \in 1..n |-> Decode(pipe[j][i])]
            /\ \A k \in 1..Len(output_lines'[j]) :
                  output_lines'[j][k] = WrittenLine[k]
       /\ \A s \in SubIds :
            subs'[s].pc # "idle" =>
                /\ IsPrefix(DataPart(subs'[s]),
                            DataEvents(output_lines'[subs'[s].job_id]))
                /\ subs[s].pc # "idle" =>
                      IsPrefix(DataPart(subs[s]), DataPart(subs'[s]))]_vars

C18_Witness ==
    \E s \in SubIds :
        /\ subs[s].pc = "yield"
        /\ Len(subs[s].events) = 1
        /\ Len(output_lines[subs[s].job_id]) = MaxLines
        /\ jobdict[subs[s].job_id].status = "cancelled"

\* The statuses of job j that the response r shows to its reader
Observed(r, j) ==
    IF r.op \in {"status", "result"} /\ r.code = 200 /\ r.job_id = j
    THEN {r.status}
    ELSE IF r.op = "list"
    THEN {r.jobs[i].status : i \in {k \in 1..Len(r.jobs) : r.jobs[k].job_id = j}}
    ELSE {}

\* C19: from the moment a job's status is terminal, which is the earliest a
\* reader can have seen it so, the status stays terminal and no response shows
\* the job as running.
C19_NeverRunningAgain ==
    [][\A j \in JobIds :
        (jobdict[j] # EmptyDict /\ jobdict[j].status \in TerminalStatuses) =>
            /\ jobdict'[j].status \in TerminalStatuses
            /\ "running" \notin Observed(resp', j)]_vars

C19_Witness ==
    /\ resp.op = "list"
    /\ Len(resp.jobs) = 1
    /\ resp.jobs[1].status = "finished"
    /\ kills[resp.jobs[1].job_id] = 1

\* C20: a step that removes a job from the registry finds the job's runner
\* task ended and its child, if one was started, reaped.
C20_EvictOnlyWhenDone ==
    [][\A j \in JobIds :
        (InRegistry(j) /\ ~InRegistry(j)') =>
            /\ pc[j] = "done"
            /\ child[j] \in {"none", "reaped"}]_vars

====
